---- MODULE Spec2Model ----
(***************************************************************************)
(* Model of the two F5 BIG-IP modules of lib/ansible/modules/network/f5:   *)
(*   bigip_profile_client_ssl.py  (an SSL client profile: present/absent)  *)
(*   bigip_sys_global.py          (the global settings: present only)      *)
(* One module run is main(): ModuleManager, exec_module, the device calls  *)
(* it issues, the token cleanup and exit_json / fail_json.                 *)
(*                                                                         *)
(* Python values.  A dict is a function whose DOMAIN holds the keys with a *)
(* non-None value: the parameter containers are defaultdict(lambda: None), *)
(* so a missing key and a None value read the same.  A string that the     *)
(* code takes apart (names, paths) is a sequence of tokens, e.g.           *)
(* "/Common/a.crt" is <<"/", "Common", "/", "a", ".crt">>; no token is a   *)
(* prefix of another, so sequence equality is string equality.             *)
(***************************************************************************)
EXTENDS Integers, Sequences, FiniteSets, TLC

VARIABLES
    module,        \* which module runs: "client_ssl" or "sys_global"
    params,        \* client.module.params: the user's input (non-None keys)
    check_mode,    \* client.check_mode
    device,        \* the BIG-IP: [exists, attrs, encrypts]
    pc,            \* position of main()
    want,          \* ModuleManager.want._values
    warnings,      \* ModuleManager.want._values['__warnings']
    have,          \* ModuleManager.have._values
    changes,       \* ModuleManager.changes._values
    changed,       \* the value present()/absent() returned
    result,        \* the dict exec_module returns
    exc,           \* the exception in flight or reported
    outcome,       \* "none", "exit_json", "fail_json", "uncaught"
    calls,         \* the device calls this run issued, in order
    deprecations,  \* client.module.deprecate() calls of this run
    cleanups,      \* number of cleanup_tokens() calls of this run
    run,           \* number of the current run
    start,         \* the device as it was when this run started
    prev           \* how the previous run ended

vars == <<module, params, check_mode, device, pc, want, warnings, have,
          changes, changed, result, exc, outcome, calls, deprecations,
          cleanups, run, start, prev>>

\* Bounds of the model.
MaxRuns == 2       \* runs of the same module with the same input, in a row
MaxItems == 1      \* longest cert_key_chain list the user supplies

----------------------------------------------------------------------------
\* Dicts

EmptyDict == [k \in {} |-> TRUE]

Has(d, k) == k \in DOMAIN d

Restrict(d, S) == [k \in (DOMAIN d) \cap S |-> d[k]]

Range(s) == {s[i] : i \in DOMAIN s}

----------------------------------------------------------------------------
\* Strings as token sequences

Str(tok) == <<tok>>

ExtTokens == {".crt", ".key"}

\* The tokens in the order Python compares their first characters.
TokenRank(tok) ==
    CASE tok = ".crt" -> 1
      [] tok = ".key" -> 2
      [] tok = "/" -> 3
      [] tok = "Common" -> 4
      [] tok = "a" -> 5
      [] tok = "b" -> 6
      [] tok = "ca" -> 7
      [] tok = "clientssl" -> 8
      [] tok = "none" -> 9
      [] tok = "other" -> 10
      [] OTHER -> 11

RECURSIVE StrLess(_, _)
\* Python's str < str
StrLess(a, b) ==
    IF b = <<>> THEN FALSE
    ELSE IF a = <<>> THEN TRUE
    ELSE IF Head(a) = Head(b) THEN StrLess(Tail(a), Tail(b))
    ELSE TokenRank(Head(a)) < TokenRank(Head(b))

StartsWith(s, tok) == Len(s) > 0 /\ s[1] = tok

EndsWith(s, tok) == Len(s) > 0 /\ s[Len(s)] = tok

RECURSIVE Basename(_)
\* os.path.basename: what follows the last "/"
Basename(s) ==
    IF \E i \in DOMAIN s : s[i] = "/"
    THEN Basename(Tail(s))
    ELSE s

\* os.path.splitext(...)[0]: the name without its last extension; a name that
\* is only an extension keeps it
SplitextRoot(s) ==
    IF Len(s) > 1 /\ s[Len(s)] \in ExtTokens
    THEN SubSeq(s, 1, Len(s) - 1)
    ELSE s

----------------------------------------------------------------------------
\* Exceptions and optional values

NoExc == [type |-> "none", msg |-> ""]

F5ModuleError(msg) == [type |-> "F5ModuleError", msg |-> msg]

iControlUnexpectedHTTPError == [type |-> "iControlUnexpectedHTTPError", msg |-> "http error"]

\* what a device call raises when the connection, not the API, fails
ConnectionError == [type |-> "ConnectionError", msg |-> "connection error"]

KeyError(k) == [type |-> "KeyError", msg |-> k]

TypeError(msg) == [type |-> "TypeError", msg |-> msg]

Raised(r) == r.raised.type # "none"

\* A value that may be None
None == [none |-> TRUE, value |-> <<>>]

Some(v) == [none |-> FALSE, value |-> v]

Get(d, k) == IF Has(d, k) THEN Some(d[k]) ELSE None

\* == and != of two optional values
MaybeEq(a, b) == a.none = b.none /\ (a.none \/ a.value = b.value)

\* what a property returns: the value, or the exception it raises
Return(m) == [raised |-> NoExc, ret |-> m]

Raise(e) == [raised |-> e, ret |-> None]

----------------------------------------------------------------------------
\* bigip_profile_client_ssl.py: Parameters

Ssl_api_map == [certKeyChain |-> "cert_key_chain", ocspStapling |-> "ocsp_stapling"]

Ssl_api_attributes == <<"ciphers", "certKeyChain", "ocspStapling">>

Ssl_returnables == <<"ciphers", "ocsp_stapling">>

Ssl_updatables == <<"ciphers", "cert_key_chain", "ocsp_stapling">>

\* Parameters.update: every (k, v) is stored under api_map[k], or under k.
\* None of the properties of these classes has a setter but `partition`,
\* whose setter stores the value too.
Parameters_update(values, new, api_map) ==
    LET map_key(k) == IF Has(api_map, k) THEN api_map[k] ELSE k
        keys == {map_key(k) : k \in DOMAIN new}
    IN  [mk \in keys |-> new[CHOOSE k \in DOMAIN new : map_key(k) = mk]] @@ values

\* AnsibleF5Parameters._filter_params: the entries that are not None
filter_params(m) ==
    [k \in {x \in DOMAIN m : ~m[x].none} |-> m[k].value]

\* AnsibleF5Parameters.partition, 'Common' unless given
partition(values) ==
    IF Has(values, "partition") THEN values["partition"] ELSE Str("Common")

----------------------------------------------------------------------------
\* bigip_profile_client_ssl.py: ModuleParameters

fqdn_name(values, value) ==
    IF ~StartsWith(value, "/")
    THEN <<"/">> \o partition(values) \o <<"/">> \o value
    ELSE value

key_filename(name) ==
    IF EndsWith(name, ".key") THEN name ELSE name \o <<".key">>

cert_filename(name) ==
    IF EndsWith(name, ".crt") THEN name ELSE name \o <<".crt">>

get_chain_value(values, item) ==
    IF ~Has(item, "chain") \/ item["chain"] = Str("none")
    THEN Str("none")
    ELSE cert_filename(fqdn_name(values, item["chain"]))

ModuleParameters_parent(values) ==
    IF ~Has(values, "parent") THEN None
    ELSE Some(fqdn_name(values, values["parent"]))

\* the exception one item of the list raises, NoExc when it raises none
ItemError(item) ==
    IF Has(item, "key") /\ ~Has(item, "cert")
    THEN F5ModuleError("When providing a 'key', you must also provide a 'cert'")
    ELSE IF Has(item, "cert") /\ ~Has(item, "key")
    THEN F5ModuleError("When providing a 'cert', you must also provide a 'key'")
    ELSE IF ~Has(item, "key")
    THEN KeyError("key")
    ELSE NoExc

\* the bundle record built from one valid item
ItemRecord(values, item) ==
    LET key == key_filename(item["key"])
        cert == cert_filename(item["cert"])
        chain == get_chain_value(values, item)
        filename == SplitextRoot(Basename(cert))
        tmp == [name |-> filename,
                cert |-> fqdn_name(values, cert),
                key |-> fqdn_name(values, key),
                chain |-> chain]
    IN  IF Has(item, "passphrase")
        THEN ("passphrase" :> item["passphrase"]) @@ tmp
        ELSE tmp

RECURSIVE InsertByName(_, _)
\* x placed behind every record whose name is not greater: a stable sort step
InsertByName(sorted, x) ==
    IF sorted = <<>> THEN <<x>>
    ELSE IF StrLess(x["name"], Head(sorted)["name"]) THEN <<x>> \o sorted
    ELSE <<Head(sorted)>> \o InsertByName(Tail(sorted), x)

RECURSIVE SortedByName(_)
\* sorted(result, key=lambda x: x['name'])
SortedByName(items) ==
    IF items = <<>> THEN <<>>
    ELSE InsertByName(SortedByName(SubSeq(items, 1, Len(items) - 1)), items[Len(items)])

ModuleParameters_cert_key_chain(values) ==
    IF ~Has(values, "cert_key_chain") THEN Return(None)
    ELSE LET items == values["cert_key_chain"]
             bad == {i \in DOMAIN items : ItemError(items[i]) # NoExc}
         IN  IF bad # {}
             THEN Raise(ItemError(items[CHOOSE i \in bad : \A j \in bad : i <= j]))
             ELSE Return(Some(SortedByName(
                      [i \in DOMAIN items |-> ItemRecord(values, items[i])])))

\* getattr(self.want, name) of the client SSL module
Ssl_want_attr(values, name) ==
    CASE name = "cert_key_chain" -> ModuleParameters_cert_key_chain(values)
      [] name = "parent" -> Return(ModuleParameters_parent(values))
      [] name = "partition" -> Return(Some(partition(values)))
      [] OTHER -> Return(Get(values, name))

----------------------------------------------------------------------------
\* bigip_profile_client_ssl.py: ApiParameters

ApiItemRecord(item) ==
    Restrict(item, {"name", "cert", "key", "chain", "passphrase"})

ApiParameters_cert_key_chain(values) ==
    IF ~Has(values, "cert_key_chain") THEN None
    ELSE LET items == values["cert_key_chain"]
         IN  Some(SortedByName([i \in DOMAIN items |-> ApiItemRecord(items[i])]))

\* getattr(self.have, name) of the client SSL module
Ssl_have_attr(values, name) ==
    CASE name = "cert_key_chain" -> ApiParameters_cert_key_chain(values)
      [] OTHER -> Get(values, name)

----------------------------------------------------------------------------
\* bigip_profile_client_ssl.py: Difference

\* a __default that reports every desired value, equal to the current or not
Ssl_Difference_default_no_compare(w, h, param) == Ssl_want_attr(w, param)

\* Difference.__default: the desired value when it differs from the current
\* one (None when the desired value is None)
Ssl_Difference_default(w, h, param) ==
    LET attr1 == Ssl_want_attr(w, param)
        attr2 == Ssl_have_attr(h, param)
    IN  IF Raised(attr1) THEN attr1
        ELSE IF ~MaybeEq(attr1.ret, attr2) THEN Return(attr1.ret)
        ELSE Return(None)

\* Difference.to_tuple, as the set its only caller makes of it
to_tuple(items) ==
    UNION {{<<k, items[i][k]>> : k \in DOMAIN items[i]} : i \in DOMAIN items}

diff_complex_items(w, h) ==
    IF (~w.none /\ w.value = <<>>) /\ h.none THEN Return(None)
    ELSE IF w.none THEN Return(None)
    ELSE IF h.none THEN Raise(TypeError("'NoneType' object is not iterable"))
    ELSE IF to_tuple(w.value) \subseteq to_tuple(h.value) THEN Return(None)
    ELSE Return(w)

Difference_parent(w, h) ==
    IF ~MaybeEq(ModuleParameters_parent(w), Get(h, "parent"))
    THEN Raise(F5ModuleError("The parent profile cannot be changed"))
    ELSE Return(None)

Difference_cert_key_chain(w, h) ==
    LET wr == ModuleParameters_cert_key_chain(w)
    IN  IF Raised(wr) THEN wr
        ELSE diff_complex_items(wr.ret, ApiParameters_cert_key_chain(h))

\* Difference.compare: the property of that name, else __default
Ssl_Difference_compare(w, h, param) ==
    CASE param = "parent" -> Difference_parent(w, h)
      [] param = "cert_key_chain" -> Difference_cert_key_chain(w, h)
      [] OTHER -> Ssl_Difference_default(w, h, param)

----------------------------------------------------------------------------
\* bigip_profile_client_ssl.py: ModuleManager, the parts that touch no device

\* the dict _set_changed_options builds; self.changes is replaced when it is
\* not empty
Ssl_set_changed_options(w) ==
    filter_params([key \in Range(Ssl_returnables) |-> Ssl_want_attr(w, key).ret])

RECURSIVE Ssl_changed_from(_, _, _, _)
\* the loop of _update_changed_options from the i-th updatable on
Ssl_changed_from(w, h, i, acc) ==
    IF i > Len(Ssl_updatables) THEN [raised |-> NoExc, changed |-> acc]
    ELSE LET k == Ssl_updatables[i]
             change == Ssl_Difference_compare(w, h, k)
         IN  IF Raised(change) THEN [raised |-> change.raised, changed |-> acc]
             ELSE IF change.ret.none THEN Ssl_changed_from(w, h, i + 1, acc)
             ELSE Ssl_changed_from(w, h, i + 1, (k :> change.ret.value) @@ acc)

Ssl_update_changed_options(w, h) == Ssl_changed_from(w, h, 1, EmptyDict)

\* Parameters.api_params of a Changes object: plain stored values
Changes_api_params(values) ==
    filter_params([a \in Range(Ssl_api_attributes) |->
        Get(values, IF Has(Ssl_api_map, a) THEN Ssl_api_map[a] ELSE a)])

\* Parameters.api_params of the desired parameters: through the properties
Ssl_want_api_params(w) ==
    LET attr(a) == Ssl_want_attr(w, IF Has(Ssl_api_map, a) THEN Ssl_api_map[a] ELSE a)
        bad == {i \in DOMAIN Ssl_api_attributes : Raised(attr(Ssl_api_attributes[i]))}
    IN  IF bad # {}
        THEN [raised |-> attr(Ssl_api_attributes[CHOOSE i \in bad : \A j \in bad : i <= j]).raised,
              params |-> EmptyDict]
        ELSE [raised |-> NoExc,
              params |-> filter_params([a \in Range(Ssl_api_attributes) |-> attr(a).ret])]

\* Changes.to_return: the returnables that are not None
Ssl_to_return(values) ==
    filter_params([r \in Range(Ssl_returnables) |-> Get(values, r)])

----------------------------------------------------------------------------
\* bigip_sys_global.py: Parameters, ModuleParameters, Difference

Sys_api_map ==
    [guiSecurityBanner |-> "security_banner",
     guiSecurityBannerText |-> "banner_text",
     guiSetup |-> "gui_setup",
     lcdDisplay |-> "lcd_display",
     mgmtDhcp |-> "mgmt_dhcp",
     netReboot |-> "net_reboot",
     quietBoot |-> "quiet_boot",
     consoleInactivityTimeout |-> "console_timeout"]

Sys_api_attributes ==
    <<"guiSecurityBanner", "guiSecurityBannerText", "guiSetup", "lcdDisplay",
      "mgmtDhcp", "netReboot", "quietBoot", "consoleInactivityTimeout">>

Sys_returnables ==
    <<"security_banner", "banner_text", "gui_setup", "lcd_display",
      "mgmt_dhcp", "net_reboot", "quiet_boot", "console_timeout">>

Sys_updatables ==
    <<"security_banner", "banner_text", "gui_setup", "lcd_display",
      "mgmt_dhcp", "net_reboot", "quiet_boot", "console_timeout">>

\* convert_bool.BOOLEANS_TRUE / BOOLEANS_FALSE: their string members (the
\* options have the default type, str, so a value arrives as a string) with
\* the 'True' / 'False' the module adds
BooleansTrue == {"y", "yes", "on", "1", "true", "t"} \cup {"True"}

BooleansFalse == {"n", "no", "off", "0", "false", "f"} \cup {"False"}

DeprecationWarning ==
    [version |-> "2.5",
     msg |-> "enabled/disabled are deprecated. Use boolean values (true, yes, no, 1, 0) instead."]

\* ModuleParameters._get_boolean_like_return_value: what it returns and
\* what it appends to _values['__warnings']
get_boolean_like_return_value(values, parameter) ==
    IF ~Has(values, parameter) THEN [ret |-> None, warn |-> <<>>]
    ELSE LET v == values[parameter]
             warn == IF v \in {"enabled", "disabled"} THEN <<DeprecationWarning>> ELSE <<>>
         IN  IF v \in BooleansTrue THEN [ret |-> Some("enabled"), warn |-> warn]
             ELSE IF v \in BooleansFalse THEN [ret |-> Some("disabled"), warn |-> warn]
             ELSE [ret |-> Some(v), warn |-> warn]

\* the fields ModuleParameters defines a property for
BooleanLikeProperties ==
    {"security_banner", "gui_setup", "banner_text", "lcd_display",
     "mgmt_dhcp", "net_reboot", "quiet_boot"}

\* getattr(self.want, name) of the global settings module
Sys_want_attr(values, name) ==
    IF name \in BooleanLikeProperties
    THEN get_boolean_like_return_value(values, name)
    ELSE [ret |-> Get(values, name), warn |-> <<>>]

\* Difference.compare of the global settings module: always __default
Sys_Difference_compare(w, h, param) ==
    LET attr1 == Sys_want_attr(w, param)
        attr2 == Get(h, param)
    IN  [ret |-> IF ~MaybeEq(attr1.ret, attr2) THEN attr1.ret ELSE None,
         warn |-> attr1.warn]

RECURSIVE Sys_changed_from(_, _, _, _, _)
\* the loop of _update_changed_options from the i-th updatable on
Sys_changed_from(w, h, i, acc, warn) ==
    IF i > Len(Sys_updatables) THEN [changed |-> acc, warn |-> warn]
    ELSE LET k == Sys_updatables[i]
             change == Sys_Difference_compare(w, h, k)
         IN  IF change.ret.none
             THEN Sys_changed_from(w, h, i + 1, acc, warn \o change.warn)
             ELSE Sys_changed_from(w, h, i + 1, (k :> change.ret.value) @@ acc,
                                   warn \o change.warn)

Sys_update_changed_options(w, h) == Sys_changed_from(w, h, 1, EmptyDict, <<>>)

RECURSIVE Sys_warnings_from(_, _)
\* the warnings that reading every api attribute of the desired parameters adds
Sys_warnings_from(w, i) ==
    IF i > Len(Sys_api_attributes) THEN <<>>
    ELSE Sys_want_attr(w, Sys_api_map[Sys_api_attributes[i]]).warn
             \o Sys_warnings_from(w, i + 1)

\* Parameters.api_params of the desired parameters
Sys_want_api_params(w) ==
    [params |-> filter_params([a \in Range(Sys_api_attributes) |->
                    Sys_want_attr(w, Sys_api_map[a]).ret]),
     warn |-> Sys_warnings_from(w, 1)]

\* Changes.to_return: the returnables that are not None
Sys_to_return(values) ==
    filter_params([r \in Range(Sys_returnables) |-> Get(values, r)])

----------------------------------------------------------------------------
\* The BIG-IP behind the SDK client

\* the form in which the device reports a passphrase it encrypted
Encrypted(passphrase) == <<"$M$">> \o passphrase

\* the value the device keeps for an attribute it is sent
Stored(dev, attr, value) ==
    IF attr = "certKeyChain" /\ dev.encrypts
    THEN [i \in DOMAIN value |->
            IF Has(value[i], "passphrase")
            THEN ("passphrase" :> Encrypted(value[i]["passphrase"])) @@ value[i]
            ELSE value[i]]
    ELSE value

StoredAll(dev, payload) == [a \in DOMAIN payload |-> Stored(dev, a, payload[a])]

\* client_ssl.create(name, partition, **params); a profile created without a
\* parent inherits from /Common/clientssl
Device_create(dev, payload) ==
    [dev EXCEPT !.exists = TRUE,
                !.attrs = StoredAll(dev, payload)
                          @@ [defaultsFrom |-> <<"/", "Common", "/", "clientssl">>]]

\* resource.modify(**params)
Device_modify(dev, payload) ==
    [dev EXCEPT !.attrs = StoredAll(dev, payload) @@ dev.attrs]

\* resource.delete(), which the device may not carry out
Device_delete(dev, effective) ==
    IF effective THEN [dev EXCEPT !.exists = FALSE, !.attrs = EmptyDict] ELSE dev

\* what a call to the device raises, NoExc when it returns
DeviceFaults == {NoExc, iControlUnexpectedHTTPError, ConnectionError}

Call(op, payload) == [op |-> op, payload |-> payload]

----------------------------------------------------------------------------
\* Inputs

Opt(k, S) == {EmptyDict} \cup {k :> v : v \in S}

\* the entries a user writes into cert_key_chain
Items ==
    {[cert |-> Str("a"), key |-> Str("a")],
     [cert |-> Str("a"), key |-> Str("a"), passphrase |-> Str("p")],
     [cert |-> Str("b"), key |-> Str("a"), chain |-> Str("ca")],
     [key |-> Str("a")],
     [cert |-> Str("a")],
     [chain |-> Str("ca")]}

ChainLists == UNION {[1..n -> Items] : n \in 0..MaxItems}

SslParams ==
    {s @@ p @@ c @@ k :
        s \in {"state" :> x : x \in {"present", "absent"}},
        p \in Opt("parent", {Str("clientssl")}),
        c \in Opt("ciphers", {"c1"}),
        k \in Opt("cert_key_chain", ChainLists)}

BundleA ==
    [name |-> Str("a"),
     cert |-> <<"/", "Common", "/", "a", ".crt">>,
     key |-> <<"/", "Common", "/", "a", ".key">>,
     chain |-> Str("none"),
     appService |-> Str("none")]

BundleB ==
    [name |-> Str("b"),
     cert |-> <<"/", "Common", "/", "b", ".crt">>,
     key |-> <<"/", "Common", "/", "b", ".key">>,
     chain |-> <<"/", "Common", "/", "ca", ".crt">>,
     passphrase |-> Encrypted(Str("p"))]

SslDevices ==
    {[exists |-> FALSE, attrs |-> EmptyDict, encrypts |-> e] : e \in BOOLEAN}
    \cup
    {[exists |-> TRUE, attrs |-> c @@ d @@ k, encrypts |-> e] :
        c \in {"ciphers" :> x : x \in {"DEFAULT", "c1"}},
        d \in {"defaultsFrom" :> x :
                  x \in {<<"/", "Common", "/", "clientssl">>,
                         <<"/", "Common", "/", "other">>}},
        k \in Opt("certKeyChain", {<<BundleA>>, <<BundleB, BundleA>>}),
        e \in BOOLEAN}

SysParams ==
    {s @@ b @@ g @@ t :
        s \in Opt("security_banner", {"enabled", "disabled", "true", "false", "yes",
                                      "no", "1", "0", "True", "False"}),
        b \in Opt("banner_text", {"hello", "yes", "enabled"}),
        g \in Opt("gui_setup", {"no"}),
        t \in Opt("console_timeout", {60})}

SysDevices ==
    {[exists |-> TRUE,
      attrs |-> [guiSecurityBanner |-> s, guiSecurityBannerText |-> b,
                 guiSetup |-> "enabled", lcdDisplay |-> "enabled",
                 mgmtDhcp |-> "enabled", netReboot |-> "disabled",
                 quietBoot |-> "enabled", consoleInactivityTimeout |-> t],
      encrypts |-> FALSE] :
        s \in {"enabled", "disabled"}, b \in {"hello", "Welcome"}, t \in {0, 60}}

NoRun ==
    [outcome |-> "none", changed |-> FALSE, dry |-> FALSE, exc |-> NoExc,
     result |-> EmptyDict]

Init ==
    /\ module \in {"client_ssl", "sys_global"}
    /\ params \in IF module = "client_ssl" THEN SslParams ELSE SysParams
    /\ device \in IF module = "client_ssl" THEN SslDevices ELSE SysDevices
    /\ check_mode \in BOOLEAN
    /\ pc = "main"
    /\ want = EmptyDict
    /\ warnings = <<>>
    /\ have = EmptyDict
    /\ changes = EmptyDict
    /\ changed = FALSE
    /\ result = EmptyDict
    /\ exc = NoExc
    /\ outcome = "none"
    /\ calls = <<>>
    /\ deprecations = <<>>
    /\ cleanups = 0
    /\ run = 1
    /\ start = device
    /\ prev = NoRun

----------------------------------------------------------------------------
\* main() and its exception handling

\* exec_module's except clause: a device HTTP error becomes the domain error
exec_module_except(e) ==
    IF e.type = "iControlUnexpectedHTTPError" THEN F5ModuleError(e.msg) ELSE e

\* main's except clause catches F5ModuleError only
main_catches(e) == e.type = "F5ModuleError"

\* an exception raised inside exec_module's try block
Throw(e) ==
    LET e2 == exec_module_except(e)
    IN  /\ exc' = e2
        /\ IF main_catches(e2)
           THEN pc' = "except" /\ outcome' = outcome
           ELSE pc' = "done" /\ outcome' = "uncaught"

Continue(next) == pc' = next /\ exc' = exc /\ outcome' = outcome

\* cleanup_tokens: load the session token and delete it; whatever either call
\* raises is discarded
cleanup_tokens ==
    /\ cleanups' = cleanups + 1
    /\ \E f1 \in DeviceFaults, f2 \in DeviceFaults :
          calls' = IF f1 # NoExc
                   THEN Append(calls, Call("token.load", EmptyDict))
                   ELSE calls \o <<Call("token.load", EmptyDict),
                                   Call("token.delete", EmptyDict)>>

\* main up to the call of exec_module: the client and the ModuleManager
Main ==
    /\ pc = "main"
    /\ want' = Parameters_update(EmptyDict, params,
                                 IF module = "client_ssl" THEN Ssl_api_map ELSE Sys_api_map)
    /\ warnings' = <<>>
    /\ have' = EmptyDict
    /\ changes' = EmptyDict
    /\ Continue("exec_module")
    /\ UNCHANGED <<module, params, check_mode, device, changed, result, calls,
                   deprecations, cleanups, run, start, prev>>

\* main after exec_module returned: cleanup, then exit_json(**results)
MainExit ==
    /\ pc = "exit"
    /\ cleanup_tokens
    /\ outcome' = "exit_json"
    /\ pc' = "done"
    /\ UNCHANGED <<module, params, check_mode, device, want, warnings, have,
                   changes, changed, result, exc, deprecations, run, start, prev>>

\* main's handler of F5ModuleError: cleanup, then fail_json(msg=str(e))
MainExcept ==
    /\ pc = "except"
    /\ cleanup_tokens
    /\ outcome' = "fail_json"
    /\ pc' = "done"
    /\ UNCHANGED <<module, params, check_mode, device, want, warnings, have,
                   changes, changed, result, exc, deprecations, run, start, prev>>

\* a call to the device raised
DeviceFailed == exc.msg \in {iControlUnexpectedHTTPError.msg, ConnectionError.msg}

\* the host runs the module again with the same input on the device as the
\* run before left it, in check mode or not
NextRun(mode) ==
    /\ pc = "done"
    /\ run < MaxRuns
    /\ run' = run + 1
    /\ check_mode' = mode
    /\ prev' = [outcome |-> outcome, changed |-> changed, dry |-> check_mode,
                exc |-> exc, result |-> result]
    /\ start' = device
    /\ pc' = "main"
    /\ want' = EmptyDict
    /\ warnings' = <<>>
    /\ have' = EmptyDict
    /\ changes' = EmptyDict
    /\ changed' = FALSE
    /\ result' = EmptyDict
    /\ exc' = NoExc
    /\ outcome' = "none"
    /\ calls' = <<>>
    /\ deprecations' = <<>>
    /\ cleanups' = 0
    /\ UNCHANGED <<module, params, device>>

\* the same task run again, in the same mode, after a run that ended in exit_json
Rerun == outcome = "exit_json" /\ NextRun(check_mode)

\* the task run for real after a dry run of it none of whose device calls failed
RunForReal == check_mode /\ ~DeviceFailed /\ NextRun(FALSE)

----------------------------------------------------------------------------
\* bigip_profile_client_ssl.py: ModuleManager

\* present: update() when the profile exists, else create()
present_branch(found) == IF found THEN "update" ELSE "create"

\* an absent that removes without looking at exists()
absent_branch_unchecked(found) == "remove"

\* absent: remove() when the profile exists, else return False
absent_branch(found) == IF found THEN "remove" ELSE "report"

\* a create that leaves the ciphers as the user gave them
without_default_ciphers(w) == w

\* create: the default cipher list, when the user gave none
with_default_ciphers(w) ==
    IF ~Has(w, "ciphers")
    THEN Parameters_update(w, [ciphers |-> "DEFAULT"], Ssl_api_map)
    ELSE w

\* a should_update that always answers True
Ssl_should_update_always(chg) == TRUE

\* should_update: whether _update_changed_options found a change
Ssl_should_update(chg) == DOMAIN chg # {}

\* create, update, remove: return True before the device is written to
Ssl_dry_run == check_mode

\* a remove that never raises after the delete
remove_failed_unchecked(found) == FALSE

\* remove: the existence re-check after the delete
remove_failed(found) == found

Ssl_exec_module ==
    /\ pc = "exec_module"
    /\ module = "client_ssl"
    /\ changed' = FALSE
    /\ result' = EmptyDict
    /\ IF want["state"] = "present" THEN Continue("present")
       ELSE IF want["state"] = "absent" THEN Continue("absent")
       ELSE Continue("report")
    /\ UNCHANGED <<module, params, check_mode, device, want, warnings, have,
                   changes, calls, deprecations, cleanups, run, start, prev>>

\* present: exists(), then update() or create()
Ssl_present ==
    /\ pc = "present"
    /\ \E f \in DeviceFaults :
          /\ calls' = Append(calls, Call("exists", EmptyDict))
          /\ IF f # NoExc THEN Throw(f)
             ELSE Continue(present_branch(device.exists))
    /\ UNCHANGED <<module, params, check_mode, device, want, warnings, have,
                   changes, changed, result, deprecations, cleanups, run, start, prev>>

\* create up to create_on_device
Ssl_create ==
    /\ pc = "create"
    /\ LET chg == Ssl_set_changed_options(want)
       IN  changes' = IF DOMAIN chg # {}
                      THEN Parameters_update(EmptyDict, chg, Ssl_api_map)
                      ELSE changes
    /\ want' = with_default_ciphers(want)
    /\ IF Ssl_dry_run
       THEN changed' = TRUE /\ Continue("report")
       ELSE changed' = changed /\ Continue("create_on_device")
    /\ UNCHANGED <<module, params, check_mode, device, warnings, have, result,
                   calls, deprecations, cleanups, run, start, prev>>

\* create_on_device, and create's return
Ssl_create_on_device ==
    /\ pc = "create_on_device"
    /\ LET p == Ssl_want_api_params(want)
       IN  IF Raised(p)
           THEN /\ Throw(p.raised)
                /\ UNCHANGED <<device, calls, changed>>
           ELSE \E f \in DeviceFaults :
                   /\ calls' = Append(calls, Call("create", p.params))
                   /\ IF f # NoExc
                      THEN Throw(f) /\ UNCHANGED <<device, changed>>
                      ELSE /\ device' = Device_create(device, p.params)
                           /\ changed' = TRUE
                           /\ Continue("report")
    /\ UNCHANGED <<module, params, check_mode, want, warnings, have, changes,
                   result, deprecations, cleanups, run, start, prev>>

\* update up to update_on_device: read_current_from_device, should_update
Ssl_update ==
    /\ pc = "update"
    /\ module = "client_ssl"
    /\ \E f \in DeviceFaults :
          /\ calls' = Append(calls, Call("load", EmptyDict))
          /\ IF f # NoExc
             THEN Throw(f) /\ UNCHANGED <<have, changes, changed>>
             ELSE /\ have' = Parameters_update(EmptyDict, device.attrs, Ssl_api_map)
                  /\ LET d == Ssl_update_changed_options(want, have')
                     IN  IF Raised(d)
                         THEN Throw(d.raised) /\ UNCHANGED <<changes, changed>>
                         ELSE IF ~Ssl_should_update(d.changed)
                         THEN /\ changed' = FALSE
                              /\ Continue("report")
                              /\ UNCHANGED changes
                         ELSE /\ changes' = Parameters_update(EmptyDict, d.changed, Ssl_api_map)
                              /\ IF Ssl_dry_run
                                 THEN changed' = TRUE /\ Continue("report")
                                 ELSE changed' = changed /\ Continue("update_on_device")
    /\ UNCHANGED <<module, params, check_mode, device, want, warnings, result,
                   deprecations, cleanups, run, start, prev>>

\* update_on_device, and update's return
Ssl_update_on_device ==
    /\ pc = "update_on_device"
    /\ module = "client_ssl"
    /\ LET p == Changes_api_params(changes)
       IN  \E f1 \in DeviceFaults, f2 \in DeviceFaults :
              IF f1 # NoExc
              THEN /\ calls' = Append(calls, Call("load", EmptyDict))
                   /\ Throw(f1)
                   /\ UNCHANGED <<device, changed>>
              ELSE /\ calls' = calls \o <<Call("load", EmptyDict), Call("modify", p)>>
                   /\ IF f2 # NoExc
                      THEN Throw(f2) /\ UNCHANGED <<device, changed>>
                      ELSE /\ device' = Device_modify(device, p)
                           /\ changed' = TRUE
                           /\ Continue("report")
    /\ UNCHANGED <<module, params, check_mode, want, warnings, have, changes,
                   result, deprecations, cleanups, run, start, prev>>

\* absent: exists(), then remove() or False
Ssl_absent ==
    /\ pc = "absent"
    /\ \E f \in DeviceFaults :
          /\ calls' = Append(calls, Call("exists", EmptyDict))
          /\ IF f # NoExc THEN Throw(f) /\ UNCHANGED changed
             ELSE /\ Continue(absent_branch(device.exists))
                  /\ changed' = IF absent_branch(device.exists) = "report" THEN FALSE ELSE changed
    /\ UNCHANGED <<module, params, check_mode, device, want, warnings, have,
                   changes, result, deprecations, cleanups, run, start, prev>>

\* remove: remove_from_device (load, delete), then the existence re-check
Ssl_remove ==
    /\ pc = "remove"
    /\ IF Ssl_dry_run
       THEN /\ changed' = TRUE
            /\ Continue("report")
            /\ UNCHANGED <<device, calls>>
       ELSE \E f1 \in DeviceFaults, f2 \in DeviceFaults, f3 \in DeviceFaults,
               effective \in BOOLEAN :
               IF f1 # NoExc
               THEN /\ calls' = Append(calls, Call("load", EmptyDict))
                    /\ Throw(f1)
                    /\ UNCHANGED <<device, changed>>
               ELSE IF f2 # NoExc
               THEN /\ calls' = calls \o <<Call("load", EmptyDict), Call("delete", EmptyDict)>>
                    /\ Throw(f2)
                    /\ UNCHANGED <<device, changed>>
               ELSE /\ device' = Device_delete(device, effective)
                    /\ calls' = calls \o <<Call("load", EmptyDict), Call("delete", EmptyDict),
                                           Call("exists", EmptyDict)>>
                    /\ IF f3 # NoExc
                       THEN Throw(f3) /\ UNCHANGED changed
                       ELSE IF remove_failed(device'.exists)
                       THEN Throw(F5ModuleError("Failed to delete the profile."))
                            /\ UNCHANGED changed
                       ELSE changed' = TRUE /\ Continue("report")
    /\ UNCHANGED <<module, params, check_mode, want, warnings, have, changes,
                   result, deprecations, cleanups, run, start, prev>>

----------------------------------------------------------------------------
\* bigip_sys_global.py: ModuleManager

\* should_update: whether _update_changed_options found a change
Sys_should_update(chg) == DOMAIN chg # {}

\* an update that goes on to the device in check mode too
Sys_dry_run_ignored == FALSE

\* update: return True before the device is written to
Sys_dry_run == check_mode

\* exec_module up to present(), which is update()
Sys_exec_module ==
    /\ pc = "exec_module"
    /\ module = "sys_global"
    /\ result' = EmptyDict
    /\ Continue("update")
    /\ UNCHANGED <<module, params, check_mode, device, want, warnings, have,
                   changes, changed, calls, deprecations, cleanups, run, start, prev>>

\* update up to update_on_device: read_current_from_device, should_update
Sys_update ==
    /\ pc = "update"
    /\ module = "sys_global"
    /\ \E f \in DeviceFaults :
          /\ calls' = Append(calls, Call("load", EmptyDict))
          /\ IF f # NoExc
             THEN Throw(f) /\ UNCHANGED <<have, changes, changed, warnings>>
             ELSE /\ have' = Parameters_update(EmptyDict, device.attrs, Sys_api_map)
                  /\ LET d == Sys_update_changed_options(want, have')
                     IN  /\ warnings' = warnings \o d.warn
                         /\ IF ~Sys_should_update(d.changed)
                            THEN /\ changed' = FALSE
                                 /\ Continue("report")
                                 /\ UNCHANGED changes
                            ELSE /\ changes' = Parameters_update(EmptyDict, d.changed, Sys_api_map)
                                 /\ IF Sys_dry_run
                                    THEN changed' = TRUE /\ Continue("report")
                                    ELSE changed' = changed /\ Continue("update_on_device")
    /\ UNCHANGED <<module, params, check_mode, device, want, result,
                   deprecations, cleanups, run, start, prev>>

\* update_on_device, and update's return
Sys_update_on_device ==
    /\ pc = "update_on_device"
    /\ module = "sys_global"
    /\ LET p == Sys_want_api_params(want)
       IN  /\ warnings' = warnings \o p.warn
           /\ \E f1 \in DeviceFaults, f2 \in DeviceFaults :
              IF f1 # NoExc
              THEN /\ calls' = Append(calls, Call("load", EmptyDict))
                   /\ Throw(f1)
                   /\ UNCHANGED <<device, changed>>
              ELSE /\ calls' = calls \o <<Call("load", EmptyDict), Call("modify", p.params)>>
                   /\ IF f2 # NoExc
                      THEN Throw(f2) /\ UNCHANGED <<device, changed>>
                      ELSE /\ device' = Device_modify(device, p.params)
                           /\ changed' = TRUE
                           /\ Continue("report")
    /\ UNCHANGED <<module, params, check_mode, want, have, changes,
                   result, deprecations, cleanups, run, start, prev>>

----------------------------------------------------------------------------
\* both modules: the end of exec_module

\* the dict exec_module has built when it calls _announce_deprecations
ReportedResult ==
    LET to_return(v) == IF module = "client_ssl" THEN Ssl_to_return(v) ELSE Sys_to_return(v)
        api_map == IF module = "client_ssl" THEN Ssl_api_map ELSE Sys_api_map
        reportable == Parameters_update(EmptyDict, to_return(changes), api_map)
    IN  ("changed" :> changed) @@ to_return(reportable)

\* _announce_deprecations: the warnings popped from the result
announce_deprecations(r) ==
    IF Has(r, "__warnings") THEN r["__warnings"] ELSE <<>>

\* exec_module after present()/absent() returned
exec_module_return ==
    /\ pc = "report"
    /\ LET r == ReportedResult
       IN  /\ result' = Restrict(r, DOMAIN r \ {"__warnings"})
           /\ deprecations' = deprecations \o announce_deprecations(r)
    /\ Continue("exit")
    /\ UNCHANGED <<module, params, check_mode, device, want, warnings, have,
                   changes, changed, calls, cleanups, run, start, prev>>

Next ==
    \/ Main
    \/ Ssl_exec_module
    \/ Ssl_present
    \/ Ssl_create
    \/ Ssl_create_on_device
    \/ Ssl_update
    \/ Ssl_update_on_device
    \/ Ssl_absent
    \/ Ssl_remove
    \/ Sys_exec_module
    \/ Sys_update
    \/ Sys_update_on_device
    \/ exec_module_return
    \/ MainExit
    \/ MainExcept
    \/ Rerun
    \/ RunForReal

Spec == Init /\ [][Next]_vars

----------------------------------------------------------------------------
\* Vocabulary of the properties

Ops == {calls[i].op : i \in DOMAIN calls}

Issued(op) == op \in Ops

IsTokenCall(c) == c.op \in {"token.load", "token.delete"}

\* the calls the orchestrator issued, without those of cleanup_tokens
OrchestratorCalls == SelectSeq(calls, LAMBDA c : ~IsTokenCall(c))

OrchestratorOps == [i \in DOMAIN OrchestratorCalls |-> OrchestratorCalls[i].op]

IsSsl == module = "client_ssl"

PresentRun == module = "sys_global" \/ params["state"] = "present"

AbsentRun == IsSsl /\ params["state"] = "absent"

Succeeded == pc = "done" /\ outcome = "exit_json"

Updatables == IF IsSsl THEN Range(Ssl_updatables) ELSE Range(Sys_updatables)

----------------------------------------------------------------------------
\* C1: in check mode neither module ever issues a create, modify or delete
\* call, whatever the desired state, the input and the device; the device
\* stays as it was when the run started.
C1_DryRunWritesNothing ==
    check_mode =>
        /\ ~Issued("create") /\ ~Issued("modify") /\ ~Issued("delete")
        /\ device = start

\* a dry run that ended reporting a change
C1_Witness == check_mode /\ Succeeded /\ changed

\* C2: after a present run that ended in exit_json, not in check mode, on a
\* device that stores what it is sent, the next present run with the same
\* input issues no create and no modify call and, when it ends in
\* exit_json, reports changed = false.
C2_SecondRunUnchanged ==
    (run > 1 /\ PresentRun /\ ~check_mode /\ ~device.encrypts /\ ~prev.dry
     /\ prev.outcome = "exit_json") =>
        /\ ~Issued("create") /\ ~Issued("modify")
        /\ Succeeded => ~changed /\ result["changed"] = FALSE

\* a second run ended after a first run that wrote to the device
C2_Witness ==
    /\ run = 2 /\ PresentRun /\ ~check_mode /\ ~device.encrypts
    /\ prev.outcome = "exit_json" /\ prev.changed /\ ~prev.dry
    /\ Succeeded

\* C3: a present run on an existing resource that ends in exit_json reports
\* changed = true exactly when the change set is not empty; the change set
\* holds only updatable fields the user supplied; a modify call is issued
\* only when the change set is not empty and the run is not a dry run, and
\* every such run that ends in exit_json has issued it.
C3_ChangedIffDiff ==
    (PresentRun /\ start.exists) =>
        /\ DOMAIN changes \subseteq Updatables \cap DOMAIN params
        /\ Succeeded => (result["changed"] <=> DOMAIN changes # {})
        /\ Issued("modify") => DOMAIN changes # {} /\ ~check_mode
        /\ (Succeeded /\ DOMAIN changes # {} /\ ~check_mode) => Issued("modify")

\* a present run on an existing resource that found a change and wrote it
C3_Witness ==
    /\ PresentRun /\ start.exists /\ run = 1
    /\ Succeeded /\ result["changed"] /\ Issued("modify")

\* C4: an absent run that ends in exit_json reports changed = whether the
\* profile existed when the run started; when it did not exist, the run
\* issues nothing but the existence check: no load and no delete.
C4_AbsentChangedIffExisted ==
    AbsentRun =>
        /\ Succeeded => result["changed"] = start.exists
        /\ ~start.exists => ~Issued("load") /\ ~Issued("delete")

\* an absent run on a profile that does not exist has ended
C4_Witness == AbsentRun /\ ~start.exists /\ Succeeded /\ ~result["changed"]

----------------------------------------------------------------------------
\* the desired parent differs from the parent the profile had at the start
ParentDiffers ==
    /\ IsSsl /\ PresentRun /\ start.exists
    /\ Has(params, "parent")
    /\ fqdn_name(params, params["parent"]) # start.attrs["defaultsFrom"]

\* C5: a present run on an existing profile whose parent differs from the
\* desired parent, and in which no device call raises, issues no modify call
\* and never ends in exit_json (it fails with the immutability error).
C5_ParentChangeIsFatal ==
    (ParentDiffers /\ ~DeviceFailed) => ~Issued("modify") /\ ~Succeeded

\* the cert_key_chain of the input has an entry with `key` and no `cert`, or
\* with `cert` and no `key`
HasUnpairedEntry ==
    /\ IsSsl
    /\ Has(params, "cert_key_chain")
    /\ \E i \in DOMAIN params["cert_key_chain"] :
          LET item == params["cert_key_chain"][i]
          IN  Has(item, "key") # Has(item, "cert")

\* the two validation errors of cert_key_chain
ValidationErrors ==
    {F5ModuleError("When providing a 'key', you must also provide a 'cert'"),
     F5ModuleError("When providing a 'cert', you must also provide a 'key'")}

\* C6: a run whose cert_key_chain has an unpaired entry, and in which no
\* device call raises, ends in fail_json with the validation error, whatever
\* the desired state and the dry-run flag.
C6_UnpairedEntryFails ==
    (HasUnpairedEntry /\ pc = "done" /\ ~DeviceFailed) =>
        /\ outcome = "fail_json"
        /\ exc \in ValidationErrors

\* C7: an absent run, not in check mode, on an existing profile ends in
\* exit_json only after exists, load, delete and the existence re-check, with
\* the profile gone; when the delete and the re-check returned and the
\* profile is still there, the run ends in fail_json with "Failed to delete
\* the profile.".
C7_DeletionVerified ==
    (AbsentRun /\ ~check_mode /\ start.exists) =>
        /\ Succeeded =>
              /\ OrchestratorOps = <<"exists", "load", "delete", "exists">>
              /\ ~device.exists
        /\ (pc = "done" /\ device.exists
                /\ OrchestratorOps = <<"exists", "load", "delete", "exists">>
                /\ ~DeviceFailed) =>
              /\ outcome = "fail_json"
              /\ exc = F5ModuleError("Failed to delete the profile.")

\* a delete that did not take effect was reported as a failure
C7_Witness ==
    /\ AbsentRun /\ ~check_mode /\ start.exists
    /\ pc = "done" /\ outcome = "fail_json" /\ device.exists
    /\ Issued("delete")
    /\ exc = F5ModuleError("Failed to delete the profile.")

\* a present run on a profile that did not exist
CreateRun == IsSsl /\ PresentRun /\ ~start.exists

\* the ciphers a created profile is to have
CreatedCiphers == IF Has(params, "ciphers") THEN params["ciphers"] ELSE "DEFAULT"

\* C8 as stated: a create run that ends in exit_json has a change set that
\* holds the ciphers, the default list when the user gave none.
C8_ChangeSetHasDefault ==
    (CreateRun /\ Succeeded) =>
        /\ result["changed"]
        /\ Has(changes, "ciphers") /\ changes["ciphers"] = CreatedCiphers

\* C8 amended: a create run that ends in exit_json reports changed = true;
\* its change set is the user's own non-null ciphers and ocsp_stapling, built
\* before the default cipher list is put into the desired parameters; the
\* run issues a create call exactly when it is not a dry run, and every
\* create call carries ciphers = "DEFAULT" when the user gave none, the
\* user's value otherwise.
C8_CreatePayloadHasDefault ==
    CreateRun =>
        /\ Succeeded =>
              /\ result["changed"]
              /\ changes = Restrict(params, Range(Ssl_returnables))
              /\ Issued("create") <=> ~check_mode
        /\ \A i \in DOMAIN calls :
              calls[i].op = "create" =>
                 /\ Has(calls[i].payload, "ciphers")
                 /\ calls[i].payload["ciphers"] = CreatedCiphers

\* a profile was created without ciphers in the input
C8_Witness ==
    /\ CreateRun /\ Succeeded /\ ~Has(params, "ciphers")
    /\ Issued("create") /\ device.exists
    /\ device.attrs["ciphers"] = "DEFAULT"

\* C9: every run that ends has called cleanup_tokens exactly once.
C9_CleanupAlways == pc = "done" => cleanups = 1

\* a boolean-like field of the input is the legacy token enabled or disabled
HasLegacyToken ==
    /\ module = "sys_global"
    /\ \E k \in DOMAIN params \cap (BooleanLikeProperties \ {"banner_text"}) :
          params[k] \in {"enabled", "disabled"}

\* C10: a run with a legacy token that ends in exit_json has announced a
\* deprecation, and the result it returns holds no warnings list.
C10_DeprecationsAnnounced ==
    (HasLegacyToken /\ Succeeded) =>
        /\ deprecations # <<>>
        /\ ~Has(result, "__warnings")

----------------------------------------------------------------------------
\* the boolean-like fields of the global settings
BooleanFields == BooleanLikeProperties \ {"banner_text"}

TrueLike == {"enabled", "true", "yes", "1", "True"}

FalseLike == {"disabled", "false", "no", "0", "False"}

\* the boolean-like fields the input gives as a legacy token
LegacyFields ==
    {k \in DOMAIN params \cap BooleanFields : params[k] \in {"enabled", "disabled"}}

\* the banner text of the input is not itself the word enabled or disabled
BannerNotLegacy ==
    ~(Has(params, "banner_text") /\ params["banner_text"] \in {"enabled", "disabled"})

\* C11: every boolean-like field of the input normalizes to enabled (a
\* true-like token) or disabled (a false-like token), an unset field to no
\* value; and a run that ends in exit_json has recorded exactly one
\* deprecation warning for each field given as a legacy token, none for the
\* other tokens.
C11_NormalizedWithOneWarning ==
    module = "sys_global" =>
        /\ \A k \in BooleanFields :
              LET r == Sys_want_attr(want, k).ret
              IN  pc # "main" =>
                    /\ ~Has(params, k) => r.none
                    /\ (Has(params, k) /\ params[k] \in TrueLike) => r = Some("enabled")
                    /\ (Has(params, k) /\ params[k] \in FalseLike) => r = Some("disabled")
        /\ (Succeeded /\ BannerNotLegacy) => Len(warnings) = Cardinality(LegacyFields)

----------------------------------------------------------------------------
\* some entry of the desired cert_key_chain carries a passphrase
HasPassphrase ==
    /\ IsSsl
    /\ Has(params, "cert_key_chain")
    /\ \E i \in DOMAIN params["cert_key_chain"] :
          Has(params["cert_key_chain"][i], "passphrase")

\* the desired cert_key_chain passes the validation of its entries
ValidChain == IsSsl /\ ~Raised(ModuleParameters_cert_key_chain(params))

\* C12: a present run against an existing profile on a device that keeps
\* passphrases encrypted, whose desired cert_key_chain is valid and has an
\* entry with a passphrase, ends (when no device call fails) in exit_json
\* with changed = true.
C12_PassphraseAlwaysChanged ==
    (/\ HasPassphrase /\ ValidChain /\ PresentRun
     /\ start.exists /\ start.encrypts
     /\ pc = "done" /\ ~DeviceFailed)
        => Succeeded /\ result["changed"]

----------------------------------------------------------------------------
\* the desired bundle list, expanded, of a run whose cert_key_chain is valid
DesiredBundles == ModuleParameters_cert_key_chain(params).ret

\* the current bundle list this run read from the device
CurrentBundles == ApiParameters_cert_key_chain(have)

\* the two cases in which the bundle diff is to report no change
PairwiseUnchanged ==
    \/ DesiredBundles.value = <<>> /\ CurrentBundles.none
    \/ /\ ~CurrentBundles.none
       /\ to_tuple(DesiredBundles.value) \subseteq to_tuple(CurrentBundles.value)

\* a present run over an existing profile that supplies a valid cert_key_chain
\* has ended, and no device call failed
BundleDiffDone ==
    /\ IsSsl /\ PresentRun /\ start.exists
    /\ Has(params, "cert_key_chain") /\ ValidChain
    /\ pc = "done" /\ ~DeviceFailed

\* C13: the bundle diff of a non-null desired list reports no change when the
\* desired list is empty and the current one absent, or when the desired
\* (field, value) pairs are a subset of the current ones; in every other case,
\* a non-empty desired list against an absent current list included, it
\* reports the whole desired list as the new value.
C13_BundleDiff ==
    BundleDiffDone =>
        /\ exc = NoExc
        /\ IF PairwiseUnchanged
           THEN ~Has(changes, "cert_key_chain")
           ELSE /\ Has(changes, "cert_key_chain")
                /\ changes["cert_key_chain"] = DesiredBundles.value

----------------------------------------------------------------------------
\* the API names of the module of this run, mapped to its parameter names
ApiMap == IF IsSsl THEN Ssl_api_map ELSE Sys_api_map

\* the payloads of the modify calls this run has issued
ModifyPayloads == {calls[i].payload : i \in {j \in DOMAIN calls : calls[j].op = "modify"}}

\* C14: in both modules the payload of a modify call is the change set under
\* the API names: exactly the fields whose desired value differs from the
\* current one, each with its desired value, and no field the device already
\* holds with that value (seen on the runs in which no device call failed).
C14_ModifyPayloadIsChangeSet ==
    \A payload \in IF DeviceFailed THEN {} ELSE ModifyPayloads :
        /\ Parameters_update(EmptyDict, payload, ApiMap) = changes
        /\ \A a \in DOMAIN payload :
              ~(Has(start.attrs, a) /\ start.attrs[a] = payload[a])

----------------------------------------------------------------------------
\* the current record c has the name of the desired record d and agrees with
\* it on every field d carries
MatchesRecord(d, c) ==
    /\ c["name"] = d["name"]
    /\ \A k \in DOMAIN d : Has(c, k) /\ c[k] = d[k]

\* C15: the bundle diff reports no change only if every desired bundle record
\* is matched by a single current record of the same name that agrees with it
\* on every field the desired record carries.
C15_NoChangeMeansRecordwiseMatch ==
    (BundleDiffDone /\ Succeeded /\ ~Has(changes, "cert_key_chain")) =>
        \A d \in Range(DesiredBundles.value) :
            \E c \in Range(CurrentBundles.value) : MatchesRecord(d, c)

----------------------------------------------------------------------------
\* C16: when the user supplies banner_text, the banner text compared against
\* the device, written to the device and reported in the result is the
\* supplied text unchanged, and the banner text records no deprecation
\* warning (seen at the end of the runs that end in exit_json).
C16_BannerTextVerbatim ==
    (module = "sys_global" /\ Has(params, "banner_text") /\ Succeeded) =>
        /\ Sys_want_attr(want, "banner_text").ret = Some(params["banner_text"])
        /\ \A payload \in ModifyPayloads :
              Has(payload, "guiSecurityBannerText") =>
                  payload["guiSecurityBannerText"] = params["banner_text"]
        /\ Has(result, "banner_text") => result["banner_text"] = params["banner_text"]
        /\ LegacyFields = {} => warnings = <<>>

----------------------------------------------------------------------------
\* a real run has ended that followed a dry run of the same task on the same
\* device state, and in neither run did a device call fail or a delete stay
\* without effect
RealAfterDry ==
    /\ run > 1 /\ prev.dry /\ ~check_mode
    /\ pc = "done"
    /\ ~DeviceFailed
    /\ exc.msg # "Failed to delete the profile."

\* C17: a dry run and the real run of the same input on the same device state,
\* every device call succeeding and taking effect, end alike: with the same
\* error, or both in exit_json with the same changed flag and reported fields.
C17_DryRunFidelity ==
    RealAfterDry =>
        /\ outcome = prev.outcome
        /\ exc = prev.exc
        /\ result = prev.result

====
